---- MODULE Spec2Model ----
(***************************************************************************)
(* W-Safe Pro (src/App.js): the SOS episode of the App component.          *)
(*                                                                         *)
(* The component is a React function component.  Every handler is a       *)
(* closure of the render that created it: it reads the state values        *)
(* (contacts, primaryContact, autoCallEnabled, panicMode, location) of     *)
(* that render, also after an await and inside timer callbacks.  State     *)
(* setters and refs (locationIntervalRef, callRetryRef) act on the live    *)
(* component.  A closure is modelled as the record of the state values it  *)
(* captured.                                                               *)
(*                                                                         *)
(* What a step does to the outside (SMS send attempts, calls, alerts,      *)
(* recorder and torch commands) is kept for one step in sent, calls,       *)
(* alert and auxOps.  The recording and flashlightOn flags are set from    *)
(* the outcome of those commands and read only by the manual tool         *)
(* buttons; the commands and their outcomes stand for them.                *)
(***************************************************************************)
EXTENDS Integers, Sequences, FiniteSets, TLC

VARIABLES
    activeTab,            \* useState('home')            App.js:29
    contacts,             \* useState([])                App.js:30
    location,             \* useState(null)              App.js:32
    panicMode,            \* useState(false)             App.js:34
    liveTracking,         \* useState(false)             App.js:35
    autoCallEnabled,      \* useState(true)              App.js:39
    primaryContact,       \* useState(null)              App.js:40
    callAttempts,         \* useState(0)                 App.js:41
    locationIntervalRef,  \* useRef(null): index into intervals, 0 = null
    callRetryRef,         \* useRef(null): index into timers, 0 = null
    shakeCount,           \* useState(0)                 App.js:33
    shakeTimeoutRef,      \* useRef(null): TRUE while its setTimeout is pending
    shakeClock,           \* seconds since shakeTimeoutRef's timer was set
    speechEvent,          \* the event last passed to Voice.onSpeechResults
    btListeners,          \* setupBluetooth(): "unset", then "on" or "off"
    btLink,               \* a wearable device is connected
    bluetoothConnected,   \* useState(false)             App.js:36
    btData,               \* the data last emitted by the device link ('read')
    smsResults,           \* what each sendSMS of the last fan-out did
    loaded,               \* loadContacts() of the mount effect has completed
    edits,                \* number of settings changes made so far
    intervals,            \* every setInterval made by startLiveTracking
    timers,               \* every setTimeout made by makeEmergencyCall
    triggers,             \* triggerSOS invocations awaiting getCurrentLocation
    stops,                \* stopPanicMode invocations awaiting getCurrentLocation
    sent,                 \* SMS send attempts made by the last step
    calls,                \* tel: calls placed by the last step
    alert,                \* Alert.alert title raised by the last step
    auxOps,               \* recorder and torch commands of the last step
    lastOp                \* the handler or callback that ran in the last step

vars == <<activeTab, contacts, location, panicMode, liveTracking,
          autoCallEnabled, primaryContact, callAttempts, locationIntervalRef,
          callRetryRef, shakeCount, shakeTimeoutRef, shakeClock, speechEvent,
          btListeners, btLink, bluetoothConnected, btData, smsResults, loaded,
          edits,
          intervals, timers, triggers, stops, sent, calls, alert, auxOps,
          lastOp>>

-----------------------------------------------------------------------------
(* Values *)

Null == "null"

\* A contact object {id, name, phone} is named by its id: "A", "B", "C".

\* What AsyncStorage may hold under 'emergencyContacts' and 'primaryContact'.
Stored ==
    {[contacts |-> <<>>, primary |-> Null],
     [contacts |-> <<"A">>, primary |-> Null],
     [contacts |-> <<"A">>, primary |-> "A"],
     [contacts |-> <<"A", "B", "C">>, primary |-> "A"]}

\* Results of Geolocation.getCurrentPosition.
Fixes == {"F1"}

\* Detector sources, as passed to triggerSOS by the handlers set at mount.
DetectorSources == {"voice", "shake", "bluetooth disconnect", "wearable SOS"}

MaxAttempts == 3

\* The shake detector: acceleration > 20, newCount >= 5, setTimeout(.., 3000).
ShakeThreshold == 20
ShakeLimit == 5
ShakeResetSeconds == 3

\* Accelerometer samples {x, y, z}: at rest, exactly at the threshold
\* (12, 16, 0 has magnitude 20), just above it, and a hard shake.
Samples == {<<0, 0, 10>>, <<12, 16, 0>>, <<12, 16, 1>>, <<0, 0, 30>>}

\* Bounds of the model: pending triggerSOS and stopPanicMode invocations,
\* intervals and timers created, settings changes made.
MaxTriggers == 1
MaxStops == 1
MaxIntervals == 2
MaxTimers == 2
MaxEdits == 1

Range(s) == {s[i] : i \in DOMAIN s}

-----------------------------------------------------------------------------
(* Native events *)

\* A JavaScript string is the sequence of its characters.
Help == <<"h", "e", "l", "p">>
Emergency == <<"e", "m", "e", "r", "g", "e", "n", "c", "y">>
Sos == <<"s", "o", "s">>

\* The event e of Voice.onSpeechResults.  value is "array" when e.value is an
\* array of strings (results), "numbers" when its first element is not a
\* string, "undefined" when e has no value, "missing" when e itself is
\* undefined.
SpeechEvent(value, results) == [value |-> value, results |-> results]

NoSpeechEvent == SpeechEvent("missing", <<>>)

SpeechEvents ==
    {NoSpeechEvent,
     SpeechEvent("undefined", <<>>),
     SpeechEvent("array", <<>>),
     SpeechEvent("numbers", <<>>),
     SpeechEvent("array", << <<>> >>),
     SpeechEvent("array", << <<"h", "e", "l", "l", "o">>, Help >>),
     SpeechEvent("array", << <<"H", "E", "L", "P">> >>),
     SpeechEvent("array", << <<"p", "l", "e", "a", "s", "e", " ">> \o Help >>),
     SpeechEvent("array", << Help \o <<"l", "e", "s", "s">> >>),
     SpeechEvent("array", << <<"E", "m", "e", "r", "g", "e", "n", "c", "y">> >>),
     SpeechEvent("array", << Sos >>),
     SpeechEvent("array", << <<"S", "o", "S", " ", "n", "o", "w">> >>),
     SpeechEvent("array", << <<"s", "o", " ", "s">> >>),
     SpeechEvent("array", << <<"h", "e", "l">>, <<"p">> >>)}

\* The data of a BluetoothSerial 'read' event.  shape is "object" for
\* {data: text}, "string" for a bare string, "null" for no data.
BtData(shape, text) == [shape |-> shape, text |-> text]

NoBtData == BtData("null", <<>>)

BtPayloads ==
    {NoBtData,
     BtData("object", <<>>),
     BtData("object", <<"S", "O", "S">>),
     BtData("object", Sos),
     BtData("object", <<" ", "S", "o", "s", "\r", "\n">>),
     BtData("object", <<"S", "O", "S", "!">>),
     BtData("object", <<"S", " ", "O", " ", "S">>),
     BtData("object", <<"O", "K">>),
     BtData("string", <<"s", "O", "s", "\n">>),
     BtData("string", <<"S", "O">>),
     BtData("string", <<>>)}

\* What SmsAndroid.autoSend does (calls back success, calls back fail, throws)
\* and what Linking.openURL of the composer fallback does.
SmsOutcomes ==
    {[autoSend |-> a, openURL |-> u] :
        a \in {"success", "fail", "throws"}, u \in {"ok", "throws"}}

NotificationKinds == {"ACTIVATED", "LIVE", "DEACTIVATED"}

-----------------------------------------------------------------------------
(* Closures *)

\* The state values a handler created by the current render reads.
Render ==
    [contacts |-> contacts, primaryContact |-> primaryContact,
     autoCallEnabled |-> autoCallEnabled, panicMode |-> panicMode,
     location |-> location]

\* The state values of the first render.  The mount effect (deps []) runs
\* once, so the voice, shake and bluetooth handlers it registers call the
\* triggerSOS of the first render for ever.
MountRender ==
    [contacts |-> <<>>, primaryContact |-> Null,
     autoCallEnabled |-> TRUE, panicMode |-> FALSE,
     location |-> Null]

-----------------------------------------------------------------------------
(* Pure helpers *)

\* Variant of FanOut: only the first contact is notified.
FanOutFirstOnly(kind, cs, loc) ==
    [i \in 1..(IF Len(cs) > 0 THEN 1 ELSE 0) |->
        [kind |-> kind, to |-> cs[i], loc |-> loc]]

\* contacts.forEach(contact => sendSMS(contact.phone, message))
FanOut(kind, cs, loc) ==
    [i \in 1..Len(cs) |-> [kind |-> kind, to |-> cs[i], loc |-> loc]]

\* contacts.find(c => c.id !== id): the first such contact in store order.
FindOther(cs, id) ==
    IF \E i \in 1..Len(cs) : cs[i] # id
    THEN cs[CHOOSE i \in 1..Len(cs) :
                /\ cs[i] # id
                /\ \A j \in 1..(i - 1) : cs[j] = id]
    ELSE Null

\* Variant of Without: nothing is filtered out.
WithoutNothing(cs, id) == cs

\* contacts.filter(c => c.id !== id)
Without(cs, id) == SelectSeq(cs, LAMBDA c : c # id)

\* makeEmergencyCall(contact, attempt): the call it places, as
\* [contact, attempt]; contact is Null when it returns without calling.
CallPlan(cl, contact, attempt) ==
    IF contact = Null THEN [contact |-> Null, attempt |-> 0]
    ELSE IF attempt >= MaxAttempts
         THEN [contact |-> FindOther(cl.contacts, contact), attempt |-> 0]
         ELSE [contact |-> contact, attempt |-> attempt]

\* Variant of InitialCallTarget: always the first contact of the list.
InitialCallTargetFirst(cl) == cl.contacts[1]

\* const primary = primaryContact || contacts[0]
InitialCallTarget(cl) ==
    IF cl.primaryContact # Null THEN cl.primaryContact ELSE cl.contacts[1]

\* Math.sqrt(x * x + y * y + z * z) > 20, on integer samples: the square root
\* exceeds 20 exactly when the sum of squares exceeds 400.
Qualifies(sample) ==
    sample[1] * sample[1] + sample[2] * sample[2] + sample[3] * sample[3]
        > ShakeThreshold * ShakeThreshold

\* Variant of ShakeEmits: the trigger waits for one sample more.
ShakeEmitsLate(prev) == prev + 1 > ShakeLimit

\* if (newCount >= 5) in the setShakeCount updater, newCount = prev + 1
ShakeEmits(prev) == prev + 1 >= ShakeLimit

\* The value the setShakeCount updater returns.
NextShakeCount(prev) == IF prev + 1 >= ShakeLimit THEN 0 ELSE prev + 1

\* Variant of NoContacts: triggerSOS without its guard.
NoContactsUnchecked(cl) == FALSE

\* if (contacts.length === 0) in triggerSOS
NoContacts(cl) == Len(cl.contacts) = 0

\* Variant of PanicButtonDisabled: the button stays enabled during an episode.
PanicButtonNeverDisabled == FALSE

\* disabled={panicMode} on the panic button
PanicButtonDisabled == panicMode

\* Variant of StopButtonRendered: the banner is rendered whatever panicMode is.
StopButtonAlwaysRendered == activeTab = "home"

\* {panicMode && (<View style={styles.panicBanner}> ... Stop ...)} on the home tab
StopButtonRendered == activeTab = "home" /\ panicMode

-----------------------------------------------------------------------------
(* Variable groups *)

store == <<contacts, primaryContact, autoCallEnabled, loaded, edits>>
tracking == <<liveTracking, locationIntervalRef, intervals>>
escalation == <<callAttempts, callRetryRef, timers>>
shake == <<shakeCount, shakeTimeoutRef, shakeClock>>
bluetooth == <<btListeners, btLink, bluetoothConnected, btData>>
listeners == <<speechEvent, bluetooth>>

-----------------------------------------------------------------------------
(* Initial state: the first render, before the mount effect's loadContacts *)

Init ==
    /\ activeTab = "home"
    /\ contacts = <<>>
    /\ location = Null
    /\ panicMode = FALSE
    /\ liveTracking = FALSE
    /\ autoCallEnabled = TRUE
    /\ primaryContact = Null
    /\ callAttempts = 0
    /\ locationIntervalRef = 0
    /\ callRetryRef = 0
    /\ shakeCount = 0
    /\ shakeTimeoutRef = FALSE
    /\ shakeClock = 0
    /\ speechEvent = NoSpeechEvent
    /\ btListeners = "unset"
    /\ btLink = FALSE
    /\ bluetoothConnected = FALSE
    /\ btData = NoBtData
    /\ smsResults = <<>>
    /\ loaded = FALSE
    /\ edits = 0
    /\ intervals = <<>>
    /\ timers = <<>>
    /\ triggers = <<>>
    /\ stops = <<>>
    /\ sent = <<>>
    /\ calls = <<>>
    /\ alert = "none"
    /\ auxOps = <<>>
    /\ lastOp = [name |-> "mount", arg |-> Null]

-----------------------------------------------------------------------------
(* Building blocks: the functions the handlers call *)

Op(name, arg) == lastOp' = [name |-> name, arg |-> arg]

\* A step that sends nothing, calls nobody and raises no alert.
Silent(name, arg) ==
    /\ sent' = <<>>
    /\ calls' = <<>>
    /\ alert' = "none"
    /\ auxOps' = <<>>
    /\ Op(name, arg)

\* startRecording() and toggleFlashlight(true), stopRecording() and
\* toggleFlashlight(false): each awaits its native call inside its own
\* try/catch, so each succeeds or fails on its own and throws nothing.
AuxCommands(rec, torch) ==
    {<<[op |-> rec, ok |-> r], [op |-> torch, ok |-> f]>> : r, f \in BOOLEAN}

RemoveAt(s, i) == [j \in 1..(Len(s) - 1) |-> IF j < i THEN s[j] ELSE s[j + 1]]

\* An interval that is cleared and has no callback in flight, and a timer that
\* has fired or is cleared: the runtime has released their callbacks.
DeadInterval ==
    [contacts |-> <<>>, origin |-> "dead", scheduled |-> FALSE, awaiting |-> FALSE]

\* Variant of DeadTimer: the callback is kept and runs again, as with
\* setInterval in place of setTimeout.
DeadTimerStillPending ==
    [contact |-> Null, attempt |-> 0, contacts |-> <<>>, panicMode |-> FALSE,
     pending |-> TRUE]

DeadTimer ==
    [contact |-> Null, attempt |-> 0, contacts |-> <<>>, panicMode |-> FALSE,
     pending |-> FALSE]

\* Variant of Released: a callback that has finished ends its interval.
ReleasedAlways(iv) == DeadInterval

Released(iv) == IF ~iv.scheduled /\ ~iv.awaiting THEN DeadInterval ELSE iv

\* startLiveTracking(): setLiveTracking(true); locationIntervalRef.current =
\* setInterval(...).  The interval callback calls the sendLiveLocation of the
\* render that called startLiveTracking, so it keeps that render's contacts.
startLiveTracking(cs, origin) ==
    /\ Len(intervals) < MaxIntervals
    /\ liveTracking' = TRUE
    /\ intervals' = Append(intervals,
                           [contacts |-> cs, origin |-> origin,
                            scheduled |-> TRUE, awaiting |-> FALSE])
    /\ locationIntervalRef' = Len(intervals) + 1

\* if (locationIntervalRef.current) clearInterval(locationIntervalRef.current)
ClearedIntervals ==
    IF locationIntervalRef # 0
    THEN [intervals EXCEPT ![locationIntervalRef] =
              Released([@ EXCEPT !.scheduled = FALSE])]
    ELSE intervals

\* stopLiveTracking()
stopLiveTracking ==
    /\ liveTracking' = FALSE
    /\ intervals' = ClearedIntervals
    /\ UNCHANGED locationIntervalRef

\* if (callRetryRef.current) clearTimeout(callRetryRef.current)
ClearedTimers ==
    IF callRetryRef # 0
    THEN [timers EXCEPT ![callRetryRef] = DeadTimer]
    ELSE timers

\* makeEmergencyCall(contact, attempt) called from a closure cl, on the timer
\* list ts: setCallAttempts, Linking.openURL('tel:'), callRetryRef = setTimeout.
makeEmergencyCall(cl, contact, attempt, ts) ==
    LET plan == CallPlan(cl, contact, attempt)
    IN  IF plan.contact = Null
        THEN /\ calls' = <<>>
             /\ timers' = ts
             /\ UNCHANGED <<callAttempts, callRetryRef>>
        ELSE /\ Len(ts) < MaxTimers
             /\ callAttempts' = plan.attempt + 1
             /\ calls' = <<plan.contact>>
             /\ timers' = Append(ts, [contact |-> plan.contact,
                                      attempt |-> plan.attempt + 1,
                                      contacts |-> cl.contacts,
                                      panicMode |-> cl.panicMode,
                                      pending |-> TRUE])
             /\ callRetryRef' = Len(ts) + 1

\* Variant of triggerSOS: the refusal also calls setPanicMode(false).
triggerSOSRefusalEndsEpisode(cl, source) ==
    IF NoContacts(cl)
    THEN /\ alert' = "No Contacts"
         /\ activeTab' = "settings"
         /\ panicMode' = FALSE
         /\ sent' = <<>>
         /\ calls' = <<>>
         /\ auxOps' = <<>>
         /\ Op("triggerSOS", source)
         /\ UNCHANGED <<location, store, tracking, escalation, triggers, stops>>
    ELSE /\ Len(triggers) < MaxTriggers
         /\ panicMode' = TRUE
         /\ triggers' = Append(triggers,
                               [contacts |-> cl.contacts,
                                primaryContact |-> cl.primaryContact,
                                autoCallEnabled |-> cl.autoCallEnabled,
                                panicMode |-> cl.panicMode])
         /\ Silent("triggerSOS", source)
         /\ UNCHANGED <<activeTab, location, store, tracking, escalation,
                        stops>>

\* triggerSOS(source) of the render whose state values are cl, up to its
\* await getCurrentLocation().
triggerSOS(cl, source) ==
    IF NoContacts(cl)
    THEN /\ alert' = "No Contacts"
         /\ activeTab' = "settings"
         /\ sent' = <<>>
         /\ calls' = <<>>
         /\ auxOps' = <<>>
         /\ Op("triggerSOS", source)
         /\ UNCHANGED <<location, panicMode, store, tracking, escalation,
                        triggers, stops>>
    ELSE /\ Len(triggers) < MaxTriggers
         /\ panicMode' = TRUE
         /\ triggers' = Append(triggers,
                               [contacts |-> cl.contacts,
                                primaryContact |-> cl.primaryContact,
                                autoCallEnabled |-> cl.autoCallEnabled,
                                panicMode |-> cl.panicMode])
         /\ Silent("triggerSOS", source)
         /\ UNCHANGED <<activeTab, location, store, tracking, escalation,
                        stops>>

\* Variant of resetEpisode: panicMode is cleared only once a location is known.
resetEpisodeWhenLocated ==
    /\ panicMode' = (IF location # Null THEN FALSE ELSE panicMode)
    /\ callAttempts' = 0

\* setPanicMode(false); setCallAttempts(0) of stopPanicMode
resetEpisode ==
    /\ panicMode' = FALSE
    /\ callAttempts' = 0

-----------------------------------------------------------------------------
(* Actions: one per handler, callback or continuation *)

\* loadContacts(): the three AsyncStorage reads of the mount effect resolve.
LoadContacts ==
    /\ ~loaded
    /\ loaded' = TRUE
    /\ \E st \in Stored, a \in BOOLEAN :
         /\ contacts' = (IF st.contacts # <<>> THEN st.contacts ELSE contacts)
         /\ primaryContact' = (IF st.primary # Null THEN st.primary
                               ELSE primaryContact)
         /\ autoCallEnabled' = a
    /\ Silent("loadContacts", Null)
    /\ UNCHANGED <<activeTab, location, panicMode, edits, tracking,
                   escalation, shake, listeners,
                       smsResults, triggers, stops>>

\* The bottom navigation buttons.
SetActiveTab ==
    /\ \E t \in {"home", "settings"} : t # activeTab /\ activeTab' = t
    /\ Silent("setActiveTab", Null)
    /\ UNCHANGED <<location, panicMode, store, tracking, escalation,
                   shake, listeners,
                       smsResults, triggers, stops>>

\* The SOS button of the home tab: onPress={() => triggerSOS('panic button')},
\* disabled={panicMode}.  A press of the disabled button runs no handler.
PressPanicButton ==
    /\ activeTab = "home"
    /\ IF PanicButtonDisabled
       THEN /\ Silent("panicButtonDisabled", Null)
            /\ UNCHANGED <<activeTab, location, panicMode, store, tracking,
                           escalation, triggers, stops>>
       ELSE triggerSOS(Render, "panic button")
    /\ UNCHANGED <<shake, listeners, smsResults>>

\* Voice.onSpeechResults, the accelerometer subscription and the
\* BluetoothSerial listeners, all registered by the mount effect.
DetectorTrigger ==
    /\ \E source \in DetectorSources : triggerSOS(MountRender, source)
    /\ UNCHANGED <<shake, listeners, smsResults>>

\* triggerSOS after its await: getCurrentLocation() of trigger i resolves with
\* a Fix, or rejects (error or 20 s timeout) and the catch block runs.
TriggerFixResolved ==
    \E i \in 1..Len(triggers) :
      LET t == triggers[i]
      IN  /\ triggers' = RemoveAt(triggers, i)
          /\ UNCHANGED <<shake, listeners, smsResults>>
          /\ \/ \E loc \in Fixes :
                  /\ location' = loc
                  /\ startLiveTracking(t.contacts, "sos")
                  /\ auxOps' \in AuxCommands("startRecorder", "torchOn")
                  /\ sent' = FanOut("ACTIVATED", t.contacts, loc)
                  /\ IF t.autoCallEnabled /\ Len(t.contacts) > 0
                     THEN makeEmergencyCall(t, InitialCallTarget(t), 0, timers)
                     ELSE /\ calls' = <<>>
                          /\ UNCHANGED escalation
                  /\ alert' = "EMERGENCY ACTIVATED"
                  /\ Op("triggerFix", Null)
                  /\ UNCHANGED <<activeTab, panicMode, store, stops>>
             \/ /\ alert' = "Error"
                /\ sent' = <<>>
                /\ calls' = <<>>
                /\ auxOps' = <<>>
                /\ Op("triggerFixRejected", Null)
                /\ UNCHANGED <<activeTab, location, panicMode, store,
                               tracking, escalation, stops>>

\* The Live Track button of the home tab:
\* onPress={() => liveTracking ? stopLiveTracking() : startLiveTracking()}
ToggleLiveTracking ==
    /\ activeTab = "home"
    /\ IF liveTracking
       THEN stopLiveTracking
       ELSE startLiveTracking(contacts, "toggle")
    /\ Silent("toggleLiveTracking", Null)
    /\ UNCHANGED <<activeTab, location, panicMode, store, escalation,
                   shake, listeners,
                       smsResults, triggers, stops>>

\* The setInterval callback of interval i starts: await getCurrentLocation().
IntervalTick ==
    \E i \in 1..Len(intervals) :
        /\ intervals[i].scheduled
        /\ ~intervals[i].awaiting
        /\ intervals' = [intervals EXCEPT ![i].awaiting = TRUE]
        /\ Silent("intervalTick", Null)
        /\ UNCHANGED <<activeTab, location, panicMode, store, liveTracking,
                       locationIntervalRef, escalation, shake, listeners,
                       smsResults, triggers, stops>>

\* The setInterval callback of interval i after its await: sendLiveLocation(loc)
\* on a Fix, console.error on a rejection.
TickFixResolved ==
    \E i \in 1..Len(intervals) :
        /\ intervals[i].awaiting
        /\ intervals' = [intervals EXCEPT ![i] =
                             Released([@ EXCEPT !.awaiting = FALSE])]
        /\ \/ \E loc \in Fixes :
                /\ location' = loc
                /\ sent' = FanOut("LIVE", intervals[i].contacts, loc)
                /\ Op("tickFix", intervals[i].origin)
           \/ /\ sent' = <<>>
              /\ Op("tickFixRejected", intervals[i].origin)
              /\ UNCHANGED location
        /\ calls' = <<>>
        /\ alert' = "none"
        /\ auxOps' = <<>>
        /\ UNCHANGED <<activeTab, panicMode, store, liveTracking,
                       locationIntervalRef, escalation, shake, listeners,
                       smsResults, triggers, stops>>

\* stopPanicMode() of the render whose state values are cl, up to
\* const loc = location || await getCurrentLocation().
stopPanicMode(cl) ==
    /\ resetEpisode
    /\ stopLiveTracking
    /\ auxOps' \in AuxCommands("stopRecorder", "torchOff")
    /\ timers' = ClearedTimers
    /\ calls' = <<>>
    /\ IF cl.location # Null
       THEN /\ sent' = FanOut("DEACTIVATED", cl.contacts, cl.location)
            /\ alert' = "Deactivated"
            /\ Op("stopPanicMode", "sent")
            /\ UNCHANGED stops
       ELSE /\ Len(stops) < MaxStops
            /\ stops' = Append(stops, [contacts |-> cl.contacts])
            /\ sent' = <<>>
            /\ alert' = "none"
            /\ Op("stopPanicMode", "awaiting")
    /\ UNCHANGED <<activeTab, location, store, callRetryRef, triggers>>

\* The Stop button of the panic banner: onPress={stopPanicMode}.  Where the
\* banner is not rendered there is nothing to press.
PressStop ==
    /\ IF StopButtonRendered
       THEN stopPanicMode(Render)
       ELSE /\ Silent("stopNotRendered", Null)
            /\ UNCHANGED <<activeTab, location, panicMode, store, tracking,
                           escalation, triggers, stops>>
    /\ UNCHANGED <<shake, listeners, smsResults>>

\* stopPanicMode after its await: the final Fix arrives and the DEACTIVATED
\* fan-out runs, or getCurrentLocation rejects and the function throws.
StopFixResolved ==
    \E i \in 1..Len(stops) :
        /\ stops' = RemoveAt(stops, i)
        /\ \/ \E loc \in Fixes :
                /\ location' = loc
                /\ sent' = FanOut("DEACTIVATED", stops[i].contacts, loc)
                /\ alert' = "Deactivated"
                /\ Op("stopFix", Null)
           \/ /\ sent' = <<>>
              /\ alert' = "none"
              /\ Op("stopFixRejected", Null)
              /\ UNCHANGED location
        /\ calls' = <<>>
        /\ auxOps' = <<>>
        /\ UNCHANGED <<activeTab, panicMode, store, tracking, escalation,
                       shake, listeners,
                       smsResults, triggers>>

\* The setTimeout callback of makeEmergencyCall, 30 s after a call:
\* if (panicMode) makeEmergencyCall(contact, attempt + 1), with the panicMode
\* and contacts of the render whose makeEmergencyCall set the timer.
TimerFire ==
    \E i \in 1..Len(timers) :
      LET t == timers[i]
          fired == [timers EXCEPT ![i] = DeadTimer]
      IN  /\ t.pending
          /\ IF t.panicMode
             THEN makeEmergencyCall(t, t.contact, t.attempt, fired)
             ELSE /\ timers' = fired
                  /\ calls' = <<>>
                  /\ UNCHANGED <<callAttempts, callRetryRef>>
          /\ sent' = <<>>
          /\ alert' = "none"
          /\ auxOps' = <<>>
          /\ Op("timerFire", t.contact)
          /\ UNCHANGED <<activeTab, location, panicMode, store, tracking,
                         shake, listeners,
                       smsResults, triggers, stops>>

\* The auto-call checkbox of the settings tab.
ToggleAutoCall ==
    /\ activeTab = "settings"
    /\ edits < MaxEdits
    /\ edits' = edits + 1
    /\ autoCallEnabled' = ~autoCallEnabled
    /\ Silent("toggleAutoCall", Null)
    /\ UNCHANGED <<activeTab, location, panicMode, contacts, primaryContact,
                   loaded, tracking, escalation, shake, listeners,
                       smsResults, triggers, stops>>

\* removeContact(id) from a contact card of the settings tab.  saveContacts
\* sets the new list unless AsyncStorage.setItem throws.
RemoveContact ==
    /\ activeTab = "settings"
    /\ edits < MaxEdits
    /\ edits' = edits + 1
    /\ \E k \in 1..Len(contacts), saved \in BOOLEAN :
         LET id == contacts[k]
             updated == Without(contacts, id)
         IN  /\ contacts' = (IF saved THEN updated ELSE contacts)
             /\ primaryContact' = (IF primaryContact = id /\ Len(updated) > 0
                                   THEN updated[1] ELSE primaryContact)
             /\ Silent("removeContact", id)
    /\ UNCHANGED <<activeTab, location, panicMode, autoCallEnabled, loaded,
                   tracking, escalation, shake, listeners,
                       smsResults, triggers, stops>>

\* setPrimary(contact) from the Set Primary link of a non-primary contact card.
SetPrimary ==
    /\ activeTab = "settings"
    /\ edits < MaxEdits
    /\ edits' = edits + 1
    /\ \E k \in 1..Len(contacts) :
         /\ contacts[k] # primaryContact
         /\ primaryContact' = contacts[k]
         /\ Op("setPrimary", contacts[k])
    /\ sent' = <<>>
    /\ calls' = <<>>
    /\ alert' = "Success"
    /\ auxOps' = <<>>
    /\ UNCHANGED <<activeTab, location, panicMode, contacts, autoCallEnabled,
                   loaded, tracking, escalation, shake, listeners,
                       smsResults, triggers, stops>>

Next ==
    \/ LoadContacts
    \/ SetActiveTab
    \/ PressPanicButton
    \/ DetectorTrigger
    \/ TriggerFixResolved
    \/ ToggleLiveTracking
    \/ IntervalTick
    \/ TickFixResolved
    \/ PressStop
    \/ StopFixResolved
    \/ TimerFire
    \/ ToggleAutoCall
    \/ RemoveContact
    \/ SetPrimary

Spec == Init /\ [][Next]_vars

\* The runtime runs a due timer or interval callback and settles a pending
\* location request: a re-check timer that stays pending fires, a scheduled
\* interval ticks, and a triggerSOS or a tick that awaits its Fix resumes.
FairSpec ==
    /\ Spec
    /\ WF_vars(TimerFire)
    /\ WF_vars(TriggerFixResolved)
    /\ WF_vars(IntervalTick)
    /\ WF_vars(TickFixResolved)

-----------------------------------------------------------------------------
(* The shake detector, sample by sample *)

\* The accelerometer subscription delivers a sample.  A qualifying sample runs
\* the setShakeCount updater: the reset timer is cleared and set again, and
\* the fifth count calls triggerSOS('shake') of the first render.
AccelerometerSample ==
    \E sample \in Samples :
        IF Qualifies(sample)
        THEN /\ shakeTimeoutRef' = TRUE
             /\ shakeClock' = 0
             /\ UNCHANGED <<listeners, smsResults>>
             /\ shakeCount' = NextShakeCount(shakeCount)
             /\ IF ShakeEmits(shakeCount)
                THEN triggerSOS(MountRender, "shake")
                ELSE /\ Silent("accelerometer", "qualifying")
                     /\ UNCHANGED <<activeTab, location, panicMode, store,
                                    tracking, escalation, triggers, stops>>
        ELSE /\ Silent("accelerometer", "below")
             /\ UNCHANGED <<activeTab, location, panicMode, store, tracking,
                            escalation, shake, listeners,
                       smsResults, triggers, stops>>

\* A second passes while the reset timer is pending and not yet due.
ShakeSecond ==
    /\ shakeTimeoutRef
    /\ shakeClock < ShakeResetSeconds
    /\ shakeClock' = shakeClock + 1
    /\ Silent("shakeSecond", Null)
    /\ UNCHANGED <<activeTab, location, panicMode, store, tracking,
                   escalation, shakeCount, shakeTimeoutRef, listeners,
                   smsResults, triggers, stops>>

\* The reset timer's callback, due 3000 ms after it was set: setShakeCount(0).
ShakeTimeout ==
    /\ shakeTimeoutRef
    /\ shakeClock >= ShakeResetSeconds
    /\ shakeCount' = 0
    /\ shakeTimeoutRef' = FALSE
    /\ shakeClock' = 0
    /\ Silent("shakeTimeout", Null)
    /\ UNCHANGED <<activeTab, location, panicMode, store, tracking,
                   escalation, listeners, smsResults, triggers, stops>>

ShakeNext ==
    \/ LoadContacts
    \/ SetActiveTab
    \/ AccelerometerSample
    \/ ShakeSecond
    \/ ShakeTimeout

ShakeSpec == Init /\ [][ShakeNext]_vars

-----------------------------------------------------------------------------
(* The voice detector, result by result *)

\* String.prototype.toLowerCase, character by character.
ToLowerChar(c) ==
    CASE c = "H" -> "h" [] c = "E" -> "e" [] c = "L" -> "l" [] c = "P" -> "p"
      [] c = "S" -> "s" [] c = "O" -> "o" [] c = "K" -> "k"
      [] OTHER -> c

\* Variant of ToLowerCase: the text is compared as it was recognised.
ToLowerCaseNone(text) == text

ToLowerCase(text) == [i \in 1..Len(text) |-> ToLowerChar(text[i])]

\* String.prototype.includes
Includes(text, word) ==
    \E i \in 0..(Len(text) - Len(word)) :
        SubSeq(text, i + 1, i + Len(word)) = word

\* const transcript = (e.value && e.value[0]) ? e.value[0].toLowerCase() : ''
\* as [threw, text]: reading e.value of an undefined e and calling
\* toLowerCase on a value that is not a string throw a TypeError.
Transcript(e) ==
    CASE e.value \in {"missing", "numbers"} -> [threw |-> TRUE, text |-> <<>>]
      [] e.value = "array" /\ Len(e.results) > 0 /\ e.results[1] # <<>>
           -> [threw |-> FALSE, text |-> ToLowerCase(e.results[1])]
      [] OTHER -> [threw |-> FALSE, text |-> <<>>]

\* transcript.includes('help') || .includes('emergency') || .includes('sos')
SpeechEmits(e) ==
    /\ ~Transcript(e).threw
    /\ \E word \in {Help, Emergency, Sos} : Includes(Transcript(e).text, word)

\* Voice.onSpeechResults = (e) => { try { ... } catch { console.warn } }
SpeechResults ==
    /\ \E e \in SpeechEvents :
         /\ speechEvent' = e
         /\ IF SpeechEmits(e)
            THEN triggerSOS(MountRender, "voice")
            ELSE /\ Silent("onSpeechResults",
                           IF Transcript(e).threw THEN "caught" ELSE "ignored")
                 /\ UNCHANGED <<activeTab, location, panicMode, store, tracking,
                                escalation, triggers, stops>>
    /\ UNCHANGED <<shake, bluetooth, smsResults>>

VoiceNext ==
    \/ LoadContacts
    \/ SetActiveTab
    \/ SpeechResults

VoiceSpec == Init /\ [][VoiceNext]_vars

-----------------------------------------------------------------------------
(* The wearable detector, event by event *)

Whitespace == {" ", "\t", "\n", "\r"}

\* String.prototype.trim
RECURSIVE Trim(_)
Trim(text) ==
    IF text = <<>> THEN text
    ELSE IF Head(text) \in Whitespace THEN Trim(Tail(text))
    ELSE IF text[Len(text)] \in Whitespace
         THEN Trim(SubSeq(text, 1, Len(text) - 1))
    ELSE text

\* String.prototype.toUpperCase, character by character.
ToUpperChar(c) ==
    CASE c = "s" -> "S" [] c = "o" -> "O" [] c = "k" -> "K"
      [] OTHER -> c

ToUpperCase(text) == [i \in 1..Len(text) |-> ToUpperChar(text[i])]

\* const msg = (data && data.data) ? data.data.trim() : data.trim()
\* as [threw, msg]: data.trim() of null, or of an object whose data is empty
\* or missing, throws a TypeError.
ReadMessage(data) ==
    CASE data.shape = "object" /\ data.text # <<>>
           -> [threw |-> FALSE, msg |-> Trim(data.text)]
      [] data.shape = "string"
           -> [threw |-> FALSE, msg |-> Trim(data.text)]
      [] OTHER -> [threw |-> TRUE, msg |-> <<>>]

\* if (msg === 'SOS' || msg.toUpperCase() === 'SOS')
ReadEmits(data) ==
    /\ ~ReadMessage(data).threw
    /\ \/ ReadMessage(data).msg = <<"S", "O", "S">>
       \/ ToUpperCase(ReadMessage(data).msg) = <<"S", "O", "S">>

\* setupBluetooth() of the mount effect: BluetoothSerial.isEnabled() resolves
\* true and the two listeners are registered, or it resolves false or
\* rejects and none is.
SetupBluetooth ==
    /\ btListeners = "unset"
    /\ \E enabled \in {"true", "false", "rejected"} :
         btListeners' = (IF enabled = "true" THEN "on" ELSE "off")
    /\ Silent("setupBluetooth", Null)
    /\ UNCHANGED <<activeTab, location, panicMode, store, tracking,
                   escalation, shake, speechEvent, btLink, bluetoothConnected,
                   btData, smsResults, triggers, stops>>

\* The Connect Wearable Device button of the home tab, shown while
\* bluetoothConnected is false: connectBluetooth().
ConnectBluetooth ==
    /\ activeTab = "home"
    /\ ~bluetoothConnected
    /\ \E outcome \in {"connected", "no devices", "failed"} :
         /\ btLink' = (IF outcome = "connected" THEN TRUE ELSE btLink)
         /\ bluetoothConnected' = (outcome = "connected")
         /\ alert' = (CASE outcome = "connected" -> "Success"
                        [] outcome = "no devices" -> "No Devices"
                        [] OTHER -> "Error")
    /\ sent' = <<>>
    /\ calls' = <<>>
    /\ auxOps' = <<>>
    /\ Op("connectBluetooth", Null)
    /\ UNCHANGED <<activeTab, location, panicMode, store, tracking,
                   escalation, shake, speechEvent, btListeners, btData,
                   smsResults, triggers, stops>>

\* The Disconnect Device button, shown while bluetoothConnected is true.
DisconnectBluetooth ==
    /\ activeTab = "home"
    /\ bluetoothConnected
    /\ btLink' = FALSE
    /\ bluetoothConnected' = FALSE
    /\ Silent("disconnectBluetooth", Null)
    /\ UNCHANGED <<activeTab, location, panicMode, store, tracking,
                   escalation, shake, speechEvent, btListeners, btData,
                   smsResults, triggers, stops>>

\* The connected device sends data.  The 'read' listener, where setupBluetooth
\* registered it, parses the data inside a try/catch.
WearableRead ==
    /\ btLink
    /\ \E data \in BtPayloads :
         /\ btData' = data
         /\ IF btListeners = "on" /\ ReadEmits(data)
            THEN triggerSOS(MountRender, "wearable SOS")
            ELSE /\ Silent(IF btListeners = "on" THEN "bluetoothRead"
                           ELSE "bluetoothUnheard",
                           IF btListeners # "on" THEN "read"
                           ELSE IF ReadMessage(data).threw THEN "caught"
                           ELSE "ignored")
                 /\ UNCHANGED <<activeTab, location, panicMode, store, tracking,
                                escalation, triggers, stops>>
    /\ UNCHANGED <<shake, speechEvent, btListeners, btLink, bluetoothConnected,
                   smsResults>>

\* The link to the connected device is lost.  The 'connectionLost' listener,
\* where setupBluetooth registered it: setBluetoothConnected(false);
\* triggerSOS('bluetooth disconnect').
ConnectionLost ==
    /\ btLink
    /\ btLink' = FALSE
    /\ IF btListeners = "on"
       THEN /\ bluetoothConnected' = FALSE
            /\ triggerSOS(MountRender, "bluetooth disconnect")
       ELSE /\ Silent("bluetoothUnheard", "connectionLost")
            /\ UNCHANGED <<activeTab, location, panicMode, store, tracking,
                           escalation, bluetoothConnected, triggers, stops>>
    /\ UNCHANGED <<shake, speechEvent, btListeners, btData, smsResults>>

WearableNext ==
    \/ LoadContacts
    \/ SetActiveTab
    \/ SetupBluetooth
    \/ ConnectBluetooth
    \/ DisconnectBluetooth
    \/ WearableRead
    \/ ConnectionLost

WearableSpec == Init /\ [][WearableNext]_vars

-----------------------------------------------------------------------------
(* The notification fan-out, send by send *)

\* Variant of sendSMS: a plain function without the outer try/catch, so that
\* an exception of autoSend reaches the caller.
sendSMSUnguarded(phone, outcome) ==
    [to |-> phone,
     autoSend |-> outcome.autoSend,
     composer |-> IF outcome.autoSend = "fail"
                  THEN (IF outcome.openURL = "ok" THEN "opened" ELSE "failed")
                  ELSE "none",
     alert |-> IF outcome.autoSend = "fail"
               THEN (IF outcome.openURL = "ok" THEN "SMS Not Sent Silently"
                     ELSE "SMS Failed")
               ELSE "none",
     threw |-> outcome.autoSend = "throws"]

\* sendSMS(phone, message): SmsAndroid.autoSend succeeds, or calls back fail,
\* or throws; on the last two the composer is opened with Linking.openURL,
\* inside a try/catch of its own.  The function is async and every statement
\* is inside a try, so nothing is thrown to the caller.
sendSMS(phone, outcome) ==
    [to |-> phone,
     autoSend |-> outcome.autoSend,
     composer |-> IF outcome.autoSend = "success" THEN "none"
                  ELSE IF outcome.openURL = "ok" THEN "opened" ELSE "failed",
     alert |-> CASE outcome.autoSend = "success" -> "none"
                 [] outcome.autoSend = "fail" /\ outcome.openURL = "ok"
                      -> "SMS Not Sent Silently"
                 [] outcome.autoSend = "fail" /\ outcome.openURL = "throws"
                      -> "SMS Failed"
                 [] outcome.autoSend = "throws" /\ outcome.openURL = "ok"
                      -> "SMS Fallback"
                 [] OTHER -> "SMS Error",
     threw |-> FALSE]

\* contacts.forEach(contact => sendSMS(contact.phone, message)): the sends in
\* list order; an exception thrown by a send would end the loop.
RECURSIVE ForEachSend(_, _)
ForEachSend(cs, outcomes) ==
    IF cs = <<>> THEN <<>>
    ELSE LET r == sendSMS(Head(cs), Head(outcomes))
         IN  IF r.threw THEN <<r>>
             ELSE <<r>> \o ForEachSend(Tail(cs), Tail(outcomes))

\* One fan-out to the current contact list: that of triggerSOS, of
\* sendLiveLocation or of stopPanicMode.
NotifyAll ==
    /\ contacts # <<>>
    /\ \E kind \in NotificationKinds, loc \in Fixes,
          outcomes \in [1..Len(contacts) -> SmsOutcomes] :
         /\ sent' = FanOut(kind, contacts, loc)
         /\ smsResults' = ForEachSend(contacts, outcomes)
         /\ Op("notifyAll", kind)
    /\ calls' = <<>>
    /\ alert' = "none"
    /\ auxOps' = <<>>
    /\ UNCHANGED <<activeTab, location, panicMode, store, tracking,
                   escalation, shake, listeners, triggers, stops>>

SmsNext ==
    \/ LoadContacts
    \/ NotifyAll

SmsSpec == Init /\ [][SmsNext]_vars

-----------------------------------------------------------------------------
(* Properties *)

\* msgs holds exactly one message of the kind to each contact of cs, and
\* nothing else.
OneEach(kind, cs, msgs) ==
    /\ \A k \in DOMAIN msgs : msgs[k].kind = kind /\ msgs[k].to \in Range(cs)
    /\ \A c \in Range(cs) :
         Cardinality({k \in DOMAIN msgs : msgs[k].to = c}) = 1

\* Timer i fires in this step.
Fires(i) ==
    /\ lastOp'.name = "timerFire"
    /\ timers[i].pending
    /\ ~timers'[i].pending

\* C1: while an episode is active (panicMode), a further trigger from the
\* panic button or from a detector sends no notification, places no call,
\* starts no live-tracking interval, starts or restarts no call escalation
\* and starts no triggerSOS run that would do so later.
C1_TriggerWhileActiveIsNoOp ==
    [][(panicMode /\ lastOp'.name \in {"triggerSOS", "panicButtonDisabled"})
         => /\ sent' = <<>>
            /\ calls' = <<>>
            /\ triggers' = triggers
            /\ UNCHANGED <<panicMode, tracking, escalation>>]_vars

C1_Witness ==
    /\ panicMode
    /\ contacts # <<>>
    /\ intervals # <<>>
    /\ lastOp = [name |-> "triggerSOS", arg |-> "shake"]

\* C2: a press of the panic button while IDLE with at least one contact makes
\* the episode active; when its Fix arrives, exactly one activation
\* notification goes to each contact and, with auto-call enabled and a primary
\* contact set, exactly one call is placed, to the primary contact.
C2_ManualTriggerActivates ==
    [][/\ (/\ lastOp'.name = "triggerSOS"
           /\ lastOp'.arg = "panic button"
           /\ ~panicMode
           /\ contacts # <<>>)
          => (panicMode' /\ Len(triggers') = Len(triggers) + 1)
       /\ \A i \in 1..Len(triggers) :
            (lastOp'.name = "triggerFix" /\ triggers' = RemoveAt(triggers, i))
              => /\ OneEach("ACTIVATED", triggers[i].contacts, sent')
                 /\ (triggers[i].autoCallEnabled
                     /\ triggers[i].primaryContact # Null)
                      => /\ calls' = <<triggers[i].primaryContact>>
                         /\ callAttempts' = 1]_vars

C2_Witness ==
    /\ lastOp.name = "triggerFix"
    /\ panicMode
    /\ contacts = <<"A", "B", "C">>
    /\ Len(sent) = 3
    /\ calls = <<"A">>

\* C3: a trigger attempt made while the contact list is empty creates no
\* episode (panicMode is left as it is, nothing is sent, nobody is called, no
\* tracking, escalation or auxiliary controller starts) and raises the
\* 'No Contacts' alert and the redirect to the settings tab, every time.
C3_NoContactsRefused ==
    [][(lastOp'.name = "triggerSOS" /\ contacts = <<>>)
         => /\ alert' = "No Contacts"
            /\ activeTab' = "settings"
            /\ sent' = <<>>
            /\ calls' = <<>>
            /\ auxOps' = <<>>
            /\ triggers' = triggers
            /\ UNCHANGED <<panicMode, tracking, escalation>>]_vars

C3_Witness ==
    /\ loaded
    /\ contacts = <<>>
    /\ ~panicMode
    /\ alert = "No Contacts"
    /\ lastOp = [name |-> "triggerSOS", arg |-> "panic button"]

\* C4 (as claimed): once stopPanicMode has run and until the next trigger
\* (panicMode false), no LIVE UPDATE is sent by an interval that triggerSOS
\* started.
C4_NoLiveUpdateAfterStandDown ==
    ~(/\ ~panicMode
      /\ lastOp = [name |-> "tickFix", arg |-> "sos"]
      /\ sent # <<>>)

\* C5 (as claimed): once stopPanicMode has run and until the next trigger
\* (panicMode false), no emergency call is placed and no re-check timer is
\* pending.
C5_NoCallAfterStandDown ==
    ~panicMode => (calls = <<>> /\ \A i \in 1..Len(timers) : ~timers[i].pending)

\* C6: a stopPanicMode invoked during an active episode leaves panicMode
\* false, and its continuation after the final Fix request, whether the Fix
\* arrives or the request fails, does not change panicMode.
C6_StandDownAlwaysIdle ==
    [][/\ (lastOp'.name = "stopPanicMode" /\ panicMode) => ~panicMode'
       /\ (lastOp'.name \in {"stopFix", "stopFixRejected"})
            => panicMode' = panicMode]_vars

C6_Witness ==
    /\ ~panicMode
    /\ contacts # <<>>
    /\ location = Null
    /\ lastOp.name = "stopFixRejected"

\* C7 (as claimed): every stand-down of an active episode sends exactly one
\* DEACTIVATED notification to each contact, whether stopPanicMode used the
\* last known Fix, obtained a final Fix or saw the final Fix request fail.
C7_DeactivationSentToAll ==
    [][/\ (lastOp'.name = "stopPanicMode" /\ lastOp'.arg = "sent")
            => OneEach("DEACTIVATED", contacts, sent')
       /\ \A i \in 1..Len(stops) :
            (/\ lastOp'.name \in {"stopFix", "stopFixRejected"}
             /\ stops' = RemoveAt(stops, i))
              => OneEach("DEACTIVATED", stops[i].contacts, sent')]_vars

\* C8: a stand-down requested while no episode is active sends nothing and
\* changes no episode state: the Stop button exists only in the banner of an
\* active episode.
C8_StandDownWhileIdleIsNoOp ==
    [][(~panicMode /\ lastOp'.name \in {"stopPanicMode", "stopNotRendered"})
         => /\ sent' = <<>>
            /\ stops' = stops
            /\ UNCHANGED <<panicMode, location, tracking, escalation>>]_vars

C8_Witness ==
    /\ ~panicMode
    /\ activeTab = "home"
    /\ contacts # <<>>
    /\ location # Null
    /\ liveTracking
    /\ lastOp.name = "stopNotRendered"

\* The call target the rotation of C9 expects when the timer set after
\* attempt number n on a contact fires.
C9_Expected(contact, n) ==
    IF n < 3 THEN contact
    ELSE IF contact = "A" THEN "B" ELSE "C"

\* C9 (as claimed): with contacts [A, B, C] and an active episode, every
\* firing of the re-check timer places a call: to the same target on the
\* first and second firing, to B on the third firing for A and to C on the
\* third firing for B.
C9_RotationABC ==
    [][\A i \in 1..Len(timers) :
         (/\ Fires(i)
          /\ panicMode
          /\ timers[i].contacts = <<"A", "B", "C">>
          /\ timers[i].contact \in {"A", "B"})
           => calls' = <<C9_Expected(timers[i].contact, timers[i].attempt)>>]_vars

\* C10 (as claimed): when a re-check timer fires while the episode is active
\* and fewer than 3 attempts were made on its target, the attempt counter is
\* incremented and a further call is placed to the same target.
C10_RecheckRetriesSameTarget ==
    [][\A i \in 1..Len(timers) :
         (Fires(i) /\ panicMode /\ timers[i].attempt < MaxAttempts)
           => /\ calls' = <<timers[i].contact>>
              /\ callAttempts' = timers[i].attempt + 1]_vars

\* The callback of timer i runs in this step.
C11_Fired(i) ==
    /\ lastOp'.name = "timerFire"
    /\ timers[i].pending
    /\ timers'[i] # timers[i]

C12_DetectorTriggerActivates ==
    [][(/\ lastOp'.name = "triggerSOS"
        /\ lastOp'.arg \in {"voice", "shake", "bluetooth disconnect",
                            "wearable SOS"}
        /\ ~panicMode
        /\ loaded
        /\ contacts # <<>>)
         => (panicMode' /\ Len(triggers') = Len(triggers) + 1)]_vars

\* C13 (as claimed): when the initial Fix request of a trigger fails, the
\* episode still proceeds: one activation notification goes to each contact,
\* live tracking starts, and with auto-call enabled a call is placed.
C13_ProceedsWithoutFix ==
    [][\A i \in 1..Len(triggers) :
         (/\ lastOp'.name = "triggerFixRejected"
          /\ triggers' = RemoveAt(triggers, i))
           => /\ OneEach("ACTIVATED", triggers[i].contacts, sent')
              /\ liveTracking'
              /\ Len(intervals') = Len(intervals) + 1
              /\ triggers[i].autoCallEnabled => calls' # <<>>]_vars

\* A qualifying sample was handled in this step.
C14_QualifyingSample ==
    \/ lastOp' = [name |-> "accelerometer", arg |-> "qualifying"]
    \/ lastOp' = [name |-> "triggerSOS", arg |-> "shake"]

\* C14: of qualifying samples each arriving less than 3 seconds after the
\* previous one, the fifth and only the fifth emits the trigger, once, and
\* sets the count to 0, and each of the first four adds one to the count; the
\* reset timer, which runs after 3 seconds without a qualifying sample, sets
\* the count to 0 and emits nothing; nothing else lowers the count, and the
\* count stays within 0..4.
C14_ShakeDetector ==
    [][/\ (C14_QualifyingSample /\ shakeClock < 3 /\ shakeCount = 4)
            => /\ lastOp' = [name |-> "triggerSOS", arg |-> "shake"]
               /\ alert' = "No Contacts"
               /\ shakeCount' = 0
       /\ (C14_QualifyingSample /\ shakeClock < 3 /\ shakeCount < 4)
            => /\ lastOp'.name = "accelerometer"
               /\ alert' = "none"
               /\ shakeCount' = shakeCount + 1
       /\ lastOp'.name = "shakeTimeout"
            => /\ shakeClock = 3
               /\ shakeCount' = 0
               /\ alert' = "none"
               /\ UNCHANGED <<activeTab, panicMode, triggers>>
       /\ shakeCount' < shakeCount
            => (shakeCount' = 0 /\ lastOp'.name \in {"triggerSOS", "shakeTimeout"})
       /\ shakeCount' \in 0..4]_vars

C14_Witness ==
    /\ lastOp = [name |-> "triggerSOS", arg |-> "shake"]
    /\ shakeCount = 0
    /\ shakeTimeoutRef
    /\ shakeClock = 0
    /\ alert = "No Contacts"

\* C15: removing the current primary contact while other contacts remain
\* makes the first of the remaining contacts, in store order, the primary.
C15_RemovePrimaryPromotesFirst ==
    [][(/\ lastOp'.name = "removeContact"
        /\ lastOp'.arg = primaryContact
        /\ \E k \in 1..Len(contacts) : contacts[k] # primaryContact)
         => \E k \in 1..Len(contacts) :
               /\ contacts[k] # primaryContact
               /\ \A j \in 1..(k - 1) : contacts[j] = primaryContact
               /\ primaryContact' = contacts[k]]_vars

C15_Witness ==
    /\ lastOp = [name |-> "removeContact", arg |-> "A"]
    /\ contacts = <<"B", "C">>
    /\ primaryContact = "B"

\* C16 (as claimed): the primary contact is unset or is a contact of the
\* list, also after the last remaining contact was removed.
C16_PrimaryResolves ==
    primaryContact = Null \/ \E k \in 1..Len(contacts) : contacts[k] = primaryContact

\* C17: panicMode goes from true to false only in a stopPanicMode step; a
\* failed Fix of the trigger or of a live-tracking tick, a refused trigger, a
\* re-check of the call escalation and a failed recorder or torch command
\* leave it as it is.
C17_OnlyStandDownEndsEpisode ==
    [][/\ (panicMode /\ ~panicMode') => lastOp'.name = "stopPanicMode"
       /\ (lastOp'.name \in {"triggerFixRejected", "tickFixRejected",
                              "triggerFix", "tickFix", "timerFire", "triggerSOS"}
           /\ panicMode)
            => panicMode']_vars

C17_Witness ==
    /\ panicMode
    /\ contacts # <<>>
    /\ alert = "Error"
    /\ lastOp.name = "triggerFixRejected"

\* The callback of interval i finishes in this step.
C18_TickDone(i) ==
    /\ lastOp'.name \in {"tickFix", "tickFixRejected"}
    /\ intervals[i].awaiting
    /\ ~intervals'[i].awaiting

\* C18: a tick of the live-tracking loop whose Fix request fails sends
\* nothing and leaves the loop as it is: liveTracking is unchanged and an
\* interval that was scheduled stays scheduled with the same contacts, so
\* that it ticks again; a tick whose Fix succeeds sends exactly one LIVE
\* UPDATE to each contact of the loop, which are all the contacts of the
\* store when the store has not changed since the loop started.
C18_FailedTickSkipped ==
    [][\A i \in 1..Len(intervals) :
         /\ (C18_TickDone(i) /\ lastOp'.name = "tickFixRejected")
              => /\ sent' = <<>>
                 /\ alert' = "none"
                 /\ liveTracking' = liveTracking
                 /\ locationIntervalRef' = locationIntervalRef
                 /\ intervals[i].scheduled
                      => /\ intervals'[i].scheduled
                         /\ intervals'[i].contacts = intervals[i].contacts
         /\ (C18_TickDone(i) /\ lastOp'.name = "tickFix")
              => /\ OneEach("LIVE", intervals[i].contacts, sent')
                 /\ intervals[i].scheduled => intervals'[i].scheduled]_vars

C18_Witness ==
    /\ lastOp = [name |-> "tickFixRejected", arg |-> "sos"]
    /\ panicMode
    /\ liveTracking
    /\ sent = <<>>
    /\ locationIntervalRef # 0
    /\ \E i \in 1..Len(intervals) :
         /\ i = locationIntervalRef
         /\ intervals[i].scheduled
         /\ ~intervals[i].awaiting
         /\ intervals[i].contacts = contacts
         /\ Len(contacts) = 3

\* C19 (as claimed): during an active episode a LIVE UPDATE of the episode's
\* tracking loop, and the DEACTIVATED fan-out of a stopPanicMode pressed in
\* it, go only to contacts that are in the list when the fan-out runs, never
\* to a contact removed before.
C19_FanOutReadsCurrentContacts ==
    (\/ (lastOp = [name |-> "tickFix", arg |-> "sos"] /\ panicMode)
     \/ lastOp = [name |-> "stopPanicMode", arg |-> "sent"])
      => \A k \in 1..Len(sent) : \E j \in 1..Len(contacts) : contacts[j] = sent[k].to

\* C20: a trigger that starts an episode carries the auto-call setting, the
\* primary contact and the contacts of that moment; when its Fix arrives, with
\* auto-call enabled exactly one call is placed, to the primary contact if one
\* is set and to the first contact otherwise, and its re-check timer is set;
\* with auto-call disabled no call is placed and the escalation state is left
\* alone.  No other step but a re-check of an escalation places a call.
C20_EscalatorStart ==
    [][/\ (lastOp'.name = "triggerSOS" /\ ~panicMode /\ panicMode')
            => /\ Len(triggers') = Len(triggers) + 1
               /\ triggers'[Len(triggers')].autoCallEnabled = autoCallEnabled
               /\ triggers'[Len(triggers')].primaryContact = primaryContact
               /\ triggers'[Len(triggers')].contacts = contacts
       /\ \A i \in 1..Len(triggers) :
            (lastOp'.name = "triggerFix" /\ triggers' = RemoveAt(triggers, i))
              => IF triggers[i].autoCallEnabled
                 THEN LET target == IF triggers[i].primaryContact # Null
                                    THEN triggers[i].primaryContact
                                    ELSE triggers[i].contacts[1]
                      IN  /\ calls' = <<target>>
                          /\ callAttempts' = 1
                          /\ callRetryRef' \in 1..Len(timers')
                          /\ timers'[callRetryRef'].pending
                          /\ timers'[callRetryRef'].contact = target
                 ELSE /\ calls' = <<>>
                      /\ UNCHANGED escalation
       /\ calls' # <<>> => lastOp'.name \in {"triggerFix", "timerFire"}]_vars

C20_Witness ==
    /\ lastOp.name = "triggerFix"
    /\ panicMode
    /\ autoCallEnabled
    /\ contacts = <<"A", "B", "C">>
    /\ primaryContact = "B"
    /\ calls = <<"B">>
    /\ callAttempts = 1

\* C21: in a fan-out a send attempt is made for every contact of the list,
\* one each and in list order, whatever the sends to the other contacts did:
\* delivered, failed with the composer opened, failed with the composer
\* failing too, or an exception of the SMS module.
C21_FanOutReachesAll ==
    [][lastOp'.name = "notifyAll"
         => /\ Len(smsResults') = Len(contacts)
            /\ \A k \in 1..Len(contacts) :
                 /\ smsResults'[k].to = contacts[k]
                 /\ smsResults'[k].autoSend \in {"success", "fail", "throws"}
                 /\ ~smsResults'[k].threw
            /\ OneEach(lastOp'.arg, contacts, sent')]_vars

C21_Witness ==
    /\ lastOp.name = "notifyAll"
    /\ contacts = <<"A", "B", "C">>
    /\ Len(smsResults) = 3
    /\ smsResults[1].alert = "SMS Error"
    /\ smsResults[2].alert = "SMS Failed"
    /\ smsResults[3].autoSend = "success"

\* C22 (as claimed): once stand-down has reset the episode (panicMode false,
\* liveTracking false, callAttempts 0), it stays reset until the next trigger:
\* no step but a trigger, or the user's Live Track button for liveTracking,
\* changes any of the three.
C22_ResetPersists ==
    [][(/\ ~panicMode
        /\ ~liveTracking
        /\ callAttempts = 0
        /\ lastOp'.name \notin {"triggerSOS", "toggleLiveTracking"})
         => (~panicMode' /\ ~liveTracking' /\ callAttempts' = 0)]_vars

\* C23 (as claimed): a stand-down of an active episode requests a fresh Fix
\* for the final location, and when that request fails the DEACTIVATED
\* notification goes out with the last known Fix.
C23_FreshFixOnStandDown ==
    [][/\ (lastOp'.name = "stopPanicMode" /\ panicMode)
            => /\ Len(stops') = Len(stops) + 1
               /\ sent' = <<>>
       /\ \A i \in 1..Len(stops) :
            (lastOp'.name = "stopFixRejected" /\ stops' = RemoveAt(stops, i)
             /\ location # Null)
              => /\ sent' # <<>>
                 /\ \A k \in 1..Len(sent') : sent'[k].loc = location]_vars

\* An escalation over at least two contacts is running: the episode is
\* active and a re-check timer of such an escalation is pending.
C24_Escalating ==
    /\ panicMode
    /\ \E i \in 1..Len(timers) :
         timers[i].pending /\ Len(timers[i].contacts) >= 2

\* C24 (as claimed): while an escalation over at least two contacts is
\* running, a re-check eventually places a further call, unless the episode
\* is stood down.
C24_EscalationNeverStops ==
    C24_Escalating ~> (~panicMode \/ (lastOp.name = "timerFire" /\ calls # <<>>))

\* The recognition events whose first result, in lower case, contains help,
\* emergency or sos.
C25_Triggering ==
    {SpeechEvent("array", << <<"H", "E", "L", "P">> >>),
     SpeechEvent("array", << <<"p", "l", "e", "a", "s", "e", " ", "h", "e", "l", "p">> >>),
     SpeechEvent("array", << <<"h", "e", "l", "p", "l", "e", "s", "s">> >>),
     SpeechEvent("array", << <<"E", "m", "e", "r", "g", "e", "n", "c", "y">> >>),
     SpeechEvent("array", << <<"s", "o", "s">> >>),
     SpeechEvent("array", << <<"S", "o", "S", " ", "n", "o", "w">> >>)}

\* C25: a recognition event emits the voice trigger exactly when its first
\* result, in lower case, contains help, emergency or sos; any other event,
\* with the text missing, empty or not a string, or with the word only in a
\* later result, emits nothing, raises no alert and changes nothing.
C25_VoiceKeywords ==
    [][(lastOp'.name = "onSpeechResults"
        \/ lastOp' = [name |-> "triggerSOS", arg |-> "voice"])
         => /\ (lastOp'.name = "triggerSOS") <=> (speechEvent' \in C25_Triggering)
            /\ lastOp'.name = "onSpeechResults"
                 => /\ alert' = "none"
                    /\ UNCHANGED <<activeTab, panicMode, triggers>>]_vars

C25_Witness ==
    /\ lastOp = [name |-> "triggerSOS", arg |-> "voice"]
    /\ speechEvent = SpeechEvent("array", << <<"H", "E", "L", "P">> >>)
    /\ alert = "No Contacts"

\* The data that is the token SOS, in any letter case, once trimmed.
C26_SosData ==
    {BtData("object", <<"S", "O", "S">>),
     BtData("object", <<"s", "o", "s">>),
     BtData("object", <<" ", "S", "o", "s", "\r", "\n">>),
     BtData("string", <<"s", "O", "s", "\n">>)}

\* C26 (as claimed): once the mount-time set-up of the wearable detector has
\* finished, data sent by the connected wearable emits the wearable trigger
\* exactly when, trimmed, it is the token SOS in any letter case, and the loss
\* of the link to the connected wearable emits the disconnect trigger.
C26_WearableDetector ==
    [][btListeners # "unset" =>
       /\ (\/ lastOp'.name = "bluetoothRead"
           \/ lastOp' = [name |-> "bluetoothUnheard", arg |-> "read"]
           \/ lastOp' = [name |-> "triggerSOS", arg |-> "wearable SOS"])
             => ((lastOp'.name = "triggerSOS") <=> (btData' \in C26_SosData))
       /\ (btLink /\ ~btLink' /\ lastOp'.name # "disconnectBluetooth")
             => lastOp' = [name |-> "triggerSOS",
                           arg |-> "bluetooth disconnect"]]_vars

\* C27 (as claimed): at most one live-tracking interval is scheduled at any
\* time, locationIntervalRef refers to it, and liveTracking is true exactly
\* when an interval is scheduled.
C27_OneInterval ==
    /\ Cardinality({i \in DOMAIN intervals : intervals[i].scheduled}) <= 1
    /\ \A i \in DOMAIN intervals :
         intervals[i].scheduled => locationIntervalRef = i
    /\ liveTracking <=> (\E i \in DOMAIN intervals : intervals[i].scheduled)

\* C28 (as claimed): at most one call re-check timer is pending at any time
\* and callRetryRef refers to it, so that clearing callRetryRef leaves no
\* timer pending.
C28_OneTimer ==
    /\ Cardinality({t \in DOMAIN timers : timers[t].pending}) <= 1
    /\ \A t \in DOMAIN timers : timers[t].pending => callRetryRef = t

====
